---- MODULE Spec2Model ----
(***************************************************************************)
(* A model of Source/Readers/ImageDatasetReader/ImageDatasetReader.cpp:    *)
(* the example adapter (ImageDatasetExample) and the sharded sequencer     *)
(* (DataSource) with its operations StartEpoch, SetConfiguration and       *)
(* GetNextSequences.  The dataset loader (IDsLoader) is an external        *)
(* collaborator; it is modelled by the protocol the adapter offers to it.  *)
(*                                                                         *)
(* The state holds a set of DataSource objects ("readers"), one field per  *)
(* variable, each variable a function from the reader to the field value.  *)
(* Spec has one reader and leaves every argument of every call free;       *)
(* SpecWorkers has one reader per rank of a distributed job, driven by a   *)
(* harness that hands every reader the same epoch configuration.           *)
(***************************************************************************)
EXTENDS Integers, Sequences, FiniteSets, TLC

VARIABLES
    m_epochSize,            \* size_t m_epochSize
    m_currEpochSampleCount, \* size_t m_currEpochSampleCount
    m_minibatchSize,        \* size_t m_minibatchSize
    m_appendLastMinibatch,  \* bool m_appendLastMinibatch
    m_workerRank,           \* size_t m_workerRank
    m_numberOfWorkers,      \* size_t m_numberOfWorkers
    m_epochOverride,        \* bool m_epochOverride
    m_streamDescriptors,    \* vector<StreamDescriptor>
    m_inputStreams,         \* vector<StreamDescriptionPtr>
    m_outputStreams,        \* vector<StreamDescriptionPtr>
    m_example,              \* the ImageDatasetExample adapter
    m_dsLoader,             \* the dataset loader: its data and its position
    constructed,            \* "ok", or the error the constructor threw
    epochConfig,            \* history: the configuration of the reader's last successful StartEpoch
    heap,                   \* history: which buffer every vector<float> of the adapter owns
    reads,                  \* history: the calls of GetNextSequences in the reader's epoch
    last                    \* history: the last call and its outcome

vars == << m_epochSize, m_currEpochSampleCount, m_minibatchSize, m_appendLastMinibatch,
           m_workerRank, m_numberOfWorkers, m_epochOverride, m_streamDescriptors,
           m_inputStreams, m_outputStreams, m_example, m_dsLoader, constructed,
           epochConfig, heap, reads, last >>

epochVars == << m_epochSize, m_currEpochSampleCount, m_minibatchSize, m_appendLastMinibatch >>
ctorVars == << m_workerRank, m_numberOfWorkers, m_epochOverride, m_streamDescriptors,
               m_inputStreams, m_outputStreams, constructed >>

Readers == DOMAIN m_workerRank

-----------------------------------------------------------------------------
(* Bounds of the model. *)

\* Largest number of workers of a job.
MaxWorkers == 3
\* Largest minibatch size of the configuration grid.
MaxMinibatch == 4
\* Largest explicit global epoch size of the configuration grid.
MaxEpoch == 9

\* Largest number of buffers a reader allocates before its last call.
MaxBuffers == 6

-----------------------------------------------------------------------------
(* Machine integers and floats. *)

\* size_t arithmetic wraps.  The modulus 2^64 is scaled down to 2^30, which
\* 32-bit model integers can hold; every count of the model stays far below it.
SizeTModulus == 1073741824

ToSizeT(x) == x % SizeTModulus

\* The reserved "use the entire dataset" value of m_totalEpochSizeInSamples:
\* a size_t no explicit epoch size of the model takes.
requestDataSize == SizeTModulus - 1

\* A float is modelled in fixed point, FloatScale units to 1.0.
FloatScale == 10

Float(n) == n * FloatScale

\* static_cast<int>(float): truncation toward zero.
StaticCastInt(f) == IF f >= 0 THEN f \div FloatScale ELSE -((-f) \div FloatScale)

Reverse(s) == [k \in 1..Len(s) |-> s[Len(s) + 1 - k]]

\* vector::resize(n): keeps the leading elements, value-initialises the rest.
Resize(v, n) == [k \in 1..n |-> IF k <= Len(v) THEN v[k] ELSE 0]

\* TensorShape(a, b, c): the dimensions are size_t.
TensorShape(a, b, c) == << ToSizeT(a), ToSizeT(b), ToSizeT(c) >>

-----------------------------------------------------------------------------
(* ImageDatasetExample: the adapter between the loader and the reader.      *)
(* A value is [m_blobNames, m_blobs, m_blob_shapes].                       *)

ImageDatasetExample(blobNames) ==
    [ m_blobNames   |-> blobNames,
      m_blobs       |-> [ib \in 1..Len(blobNames) |-> << >>],
      m_blob_shapes |-> [ib \in 1..Len(blobNames) |-> << 0, 0, 0 >>] ]

ReshapeBlob(example, index, channels, height, width) ==
    [example EXCEPT !.m_blob_shapes[index] = << channels, height, width >>,
                    !.m_blobs[index] = Resize(@, channels * height * width)]

\* The loader copies a blob into the memory GetBlobMemory(index) hands out.
WriteBlobMemory(example, index, content) ==
    [example EXCEPT !.m_blobs[index] = [k \in 1..Len(@) |-> content[k]]]

\* Index of the first blob of that name, -1 when there is none
\* (the source then throws "Blob with name %s not found.").
BlobIndexFromName(example, blobName) ==
    LET hits == {ib \in 1..Len(example.m_blobNames) : example.m_blobNames[ib] = blobName}
    IN  IF hits = {} THEN -1
        ELSE CHOOSE ib \in hits : \A jb \in hits : ib <= jb

GetBlobShape(example, blobName) ==
    example.m_blob_shapes[BlobIndexFromName(example, blobName)]

\* vector::swap with the caller's vector: the adapter keeps what the caller had.
SwapBlobData(example, blobName, outer) ==
    LET index == BlobIndexFromName(example, blobName)
    IN  [ example |-> [example EXCEPT !.m_blobs[index] = outer],
          outer   |-> example.m_blobs[index] ]

-----------------------------------------------------------------------------
(* The dataset loader, as seen through IDsLoader: a cyclic list of          *)
(* examples, each a list of blobs [shape, content], and a position.         *)

GetBlobsCount(loader) == Len(loader.blobNames)

GetBlobName(loader, ib) == loader.blobNames[ib]

GetExamplesCount(loader) == Len(loader.examples)

RECURSIVE FillBlobs(_, _, _)
FillBlobs(example, blobs, ib) ==
    IF ib > Len(blobs) THEN example
    ELSE LET shape == blobs[ib].shape
             reshaped == ReshapeBlob(example, ib, shape[1], shape[2], shape[3])
         IN  FillBlobs(WriteBlobMemory(reshaped, ib, blobs[ib].content), blobs, ib + 1)

\* m_dsLoader->GetExample(m_example.get()): fills the adapter with the
\* loader's next example and advances the loader.
GetExample(loader, example) ==
    [ loader  |-> [loader EXCEPT !.position = (@ + 1) % Len(loader.examples)],
      example |-> FillBlobs(example, loader.examples[loader.position + 1], 1) ]

-----------------------------------------------------------------------------
(* DataSource::DataSource.                                                  *)
(* A stream descriptor is [name, datasetName, datasetStorageType,          *)
(* dimension, ignoreStream], ignoreStream being [isNull, ignoreStreamName,  *)
(* ignoreLabel].                                                            *)

StreamDescription(id, name, storageType, sampleLayout) ==
    [ m_id |-> id, m_name |-> name, m_elementType |-> "tfloat",
      m_storageType |-> storageType, m_sampleLayout |-> sampleLayout ]

HasBlob(blobNames, datasetName) ==
    \E ib \in 1..Len(blobNames) : blobNames[ib] = datasetName

\* Every probed shape passes.
SparseShapeOk_Any(shape) == TRUE

\* The check of a sparse descriptor's probed shape (reversed): one value in
\* the last dimension.
SparseShapeOk(shape) == shape[3] = 1

\* The output list gets no entry for an ignore stream.
DescriptionsOf_OutputUnmasked(streamDescriptor, shape, nextId, asInput) ==
    IF streamDescriptor.datasetStorageType = "sparse_csc"
    THEN << StreamDescription(nextId, streamDescriptor.name,
                              IF asInput THEN "sparse_csc" ELSE "dense",
                              TensorShape(shape[1], shape[2], streamDescriptor.dimension)) >>
         \o (IF streamDescriptor.ignoreStream.isNull \/ ~asInput THEN << >>
             ELSE << StreamDescription(nextId + 1, streamDescriptor.ignoreStream.ignoreStreamName,
                                       "dense", TensorShape(shape[1], shape[2], 1)) >>)
    ELSE << StreamDescription(nextId, streamDescriptor.name,
                              IF asInput THEN streamDescriptor.datasetStorageType ELSE "dense",
                              TensorShape(shape[1], shape[2], shape[3])) >>

\* The descriptions one descriptor adds to a list whose next id is nextId;
\* asInput tells the input list (storage as declared) from the output list
\* (always dense).
DescriptionsOf(streamDescriptor, shape, nextId, asInput) ==
    IF streamDescriptor.datasetStorageType = "sparse_csc"
    THEN << StreamDescription(nextId, streamDescriptor.name,
                              IF asInput THEN "sparse_csc" ELSE "dense",
                              TensorShape(shape[1], shape[2], streamDescriptor.dimension)) >>
         \o (IF streamDescriptor.ignoreStream.isNull THEN << >>
             ELSE << StreamDescription(nextId + 1, streamDescriptor.ignoreStream.ignoreStreamName,
                                       "dense", TensorShape(shape[1], shape[2], 1)) >>)
    ELSE << StreamDescription(nextId, streamDescriptor.name,
                              IF asInput THEN streamDescriptor.datasetStorageType ELSE "dense",
                              TensorShape(shape[1], shape[2], shape[3])) >>

\* The loop over m_streamDescriptors: [err, inputStreams, outputStreams].
RECURSIVE CreateStreams(_, _, _, _)
CreateStreams(descriptors, example, ib, acc) ==
    IF ib > Len(descriptors) THEN acc
    ELSE LET streamDescriptor == descriptors[ib]
         IN  IF ~HasBlob(example.m_blobNames, streamDescriptor.datasetName)
             THEN [acc EXCEPT !.err = "Blob not found in image dataset"]
             ELSE LET shape == Reverse(GetBlobShape(example, streamDescriptor.datasetName))
                  IN  IF streamDescriptor.datasetStorageType = "sparse_csc" /\ ~SparseShapeOk(shape)
                      THEN [acc EXCEPT !.err = "Invalid image dataset shape for sparse data"]
                      ELSE CreateStreams(descriptors, example, ib + 1,
                             [acc EXCEPT
                                !.inputStreams = @ \o DescriptionsOf(streamDescriptor, shape, Len(@), TRUE),
                                !.outputStreams = @ \o DescriptionsOf(streamDescriptor, shape, Len(@), FALSE)])

\* The object a configuration constructs.  config is [workerRank,
\* workersCount, epochOverride, streamDescriptors, loader]; uninit gives the
\* values the two fields the constructor leaves uninitialised happen to hold.
DataSource(config, uninit) ==
    LET blobNames == [ib \in 1..GetBlobsCount(config.loader) |-> GetBlobName(config.loader, ib)]
        probe == GetExample(config.loader, ImageDatasetExample(blobNames))
        streams == CreateStreams(config.streamDescriptors, probe.example, 1,
                                 [err |-> "ok", inputStreams |-> << >>, outputStreams |-> << >>])
    IN  [ m_epochSize |-> 0,
          m_currEpochSampleCount |-> 0,
          m_minibatchSize |-> uninit.m_minibatchSize,
          m_appendLastMinibatch |-> uninit.m_appendLastMinibatch,
          m_epochOverride |-> config.epochOverride,
          m_workerRank |-> config.workerRank,
          m_numberOfWorkers |-> config.workersCount,
          m_dsLoader |-> probe.loader,
          m_example |-> probe.example,
          m_streamDescriptors |-> config.streamDescriptors,
          m_inputStreams |-> streams.inputStreams,
          m_outputStreams |-> streams.outputStreams,
          constructed |-> IF blobNames = << >> THEN "Empty blob names vector provided"
                          ELSE streams.err ]

-----------------------------------------------------------------------------
(* DataSource::StartEpoch.  config is an EpochConfiguration:                *)
(* [m_workerRank, m_numberOfWorkers, m_minibatchSizeInSamples,              *)
(* m_totalEpochSizeInSamples].                                              *)

\* Mutant: the check accepts an epoch of which samples are left.
AllSamplesRead_AtLeast(epochSize, currEpochSampleCount) == epochSize >= currEpochSampleCount

\* "Check that we read all examples from the previous epoch."
AllSamplesRead(epochSize, currEpochSampleCount) == epochSize = currEpochSampleCount

\* Mutant: the worker count is not compared.
WorkersInfoError_RankOnly(workerRank, numberOfWorkers, config) ==
    IF workerRank # config.m_workerRank THEN "Rank changed" ELSE "ok"

\* "Check workers info.": the error of the first check that fails, else "ok".
WorkersInfoError(workerRank, numberOfWorkers, config) ==
    IF workerRank # config.m_workerRank THEN "Rank changed"
    ELSE IF numberOfWorkers # config.m_numberOfWorkers THEN "Number of workers changed"
    ELSE "ok"

\* Mutant: the check is missing.
MinibatchDivisible_Unchecked(minibatchSize, numberOfWorkers) == TRUE

\* Mutant: the check asks for a sample per worker, not for divisibility.
MinibatchDivisible_NonEmptyShare(minibatchSize, numberOfWorkers) ==
    minibatchSize \div numberOfWorkers > 0

\* "Check that minibatch size is divisible by number of workers."
MinibatchDivisible(minibatchSize, numberOfWorkers) == minibatchSize % numberOfWorkers = 0

UseAllExamplesFromDatasetForEpoch(config) ==
    config.m_totalEpochSizeInSamples = requestDataSize

\* Mutant: epoch-override mode is not looked at.
GlobalEpochSize_NoOverride(config, epochOverride, numberOfWorkers, examplesCount) ==
    IF config.m_totalEpochSizeInSamples = requestDataSize THEN examplesCount
    ELSE config.m_totalEpochSizeInSamples

\* The global epoch size StartEpoch first stores in m_epochSize.
GlobalEpochSize(config, epochOverride, numberOfWorkers, examplesCount) ==
    IF UseAllExamplesFromDatasetForEpoch(config)
    THEN IF epochOverride THEN ToSizeT(numberOfWorkers * examplesCount)
         ELSE examplesCount
    ELSE config.m_totalEpochSizeInSamples

\* Mutant: the samples left after the even split are given to nobody.
ThisReaderEpochSize_NoStragglers(epochSize, minibatchSize, numberOfWorkers, workerRank) ==
    ((epochSize \div minibatchSize) * minibatchSize) \div numberOfWorkers
    + (epochSize % minibatchSize) \div numberOfWorkers

\* Mutant: the rank comparison is off by one.
ThisReaderEpochSize_RankOffByOne(epochSize, minibatchSize, numberOfWorkers, workerRank) ==
    ((epochSize \div minibatchSize) * minibatchSize) \div numberOfWorkers
    + (epochSize % minibatchSize) \div numberOfWorkers
    + (IF (epochSize % minibatchSize) % numberOfWorkers # 0
          /\ workerRank <= (epochSize % minibatchSize) % numberOfWorkers
       THEN 1 ELSE 0)

\* thisReaderEpochSize: this reader's portion of an epoch of epochSize samples.
ThisReaderEpochSize(epochSize, minibatchSize, numberOfWorkers, workerRank) ==
    LET fullMinibatches == ((epochSize \div minibatchSize) * minibatchSize) \div numberOfWorkers
        rest == epochSize % minibatchSize
        partOfMiniBatch == rest \div numberOfWorkers
    IN  IF rest # 0
        THEN fullMinibatches + partOfMiniBatch
             + (IF rest % numberOfWorkers # 0 /\ workerRank < rest % numberOfWorkers
                THEN 1 ELSE 0)
        ELSE fullMinibatches

\* Mutant: the flag is set for every reader that gets a leftover sample.
AppendLastMinibatch_AnyStraggler(epochSize, minibatchSize, numberOfWorkers, workerRank) ==
    /\ epochSize % minibatchSize # 0
    /\ (epochSize % minibatchSize) % numberOfWorkers # 0
    /\ workerRank < (epochSize % minibatchSize) % numberOfWorkers

\* The value StartEpoch leaves in m_appendLastMinibatch.
AppendLastMinibatch(epochSize, minibatchSize, numberOfWorkers, workerRank) ==
    LET rest == epochSize % minibatchSize
        allWorkersActiveInLastMinibatch == ~(rest \div numberOfWorkers = 0)
    IN  /\ rest # 0
        /\ rest % numberOfWorkers # 0
        /\ workerRank < rest % numberOfWorkers
        /\ ~allWorkersActiveInLastMinibatch

\* The error StartEpoch throws on reader i, "ok" when it throws none.
StartEpochError(i, config) ==
    IF ~AllSamplesRead(m_epochSize[i], m_currEpochSampleCount[i])
    THEN "New epoch started without reading all samples from previous epoch"
    ELSE IF WorkersInfoError(m_workerRank[i], m_numberOfWorkers[i], config) # "ok"
    THEN WorkersInfoError(m_workerRank[i], m_numberOfWorkers[i], config)
    ELSE IF ~MinibatchDivisible(config.m_minibatchSizeInSamples, m_numberOfWorkers[i])
    THEN "Minibatch size not divisible by number of workers"
    ELSE "ok"

NoBatch == [m_endOfEpoch |-> FALSE, m_data |-> << >>]

\* The record of a call: the operation, the reader it ran on, the error it
\* threw ("ok" when none) and the batch it returned.
Call(op, i, err, sequences) ==
    [ op |-> op, reader |-> i, err |-> err, sequences |-> sequences ]

\* No call of GetNextSequences is on record.
NoReads == [calls |-> 0, m_endOfEpoch |-> FALSE]

NoConfig == [ m_workerRank |-> 0, m_numberOfWorkers |-> 0,
              m_minibatchSizeInSamples |-> 0, m_totalEpochSizeInSamples |-> 0 ]

StartEpoch(i, config) ==
    LET err == StartEpochError(i, config)
        \* m_minibatchSize is saved before the divisibility check
        savesMinibatch == err \in {"ok", "Minibatch size not divisible by number of workers"}
        global == GlobalEpochSize(config, m_epochOverride[i], m_numberOfWorkers[i],
                                  GetExamplesCount(m_dsLoader[i]))
    IN  /\ constructed[i] = "ok"
        /\ m_minibatchSize' =
              IF savesMinibatch
              THEN [m_minibatchSize EXCEPT ![i] = config.m_minibatchSizeInSamples]
              ELSE m_minibatchSize
        /\ IF err = "ok"
           THEN /\ m_appendLastMinibatch' = [m_appendLastMinibatch EXCEPT ![i] =
                      AppendLastMinibatch(global, config.m_minibatchSizeInSamples,
                                          m_numberOfWorkers[i], m_workerRank[i])]
                /\ m_epochSize' = [m_epochSize EXCEPT ![i] =
                      ThisReaderEpochSize(global, config.m_minibatchSizeInSamples,
                                          m_numberOfWorkers[i], m_workerRank[i])]
                /\ m_currEpochSampleCount' = [m_currEpochSampleCount EXCEPT ![i] = 0]
                /\ epochConfig' = [epochConfig EXCEPT ![i] = config]
           ELSE UNCHANGED << m_appendLastMinibatch, m_epochSize, m_currEpochSampleCount,
                             epochConfig >>
        /\ last' = Call("StartEpoch", i, err, NoBatch)
        /\ UNCHANGED << ctorVars, m_example, m_dsLoader, heap >>

-----------------------------------------------------------------------------
(* DataSource::SetConfiguration.  config is a ReaderConfiguration; the      *)
(* field m_totalEpochSizeInSamples of the record is not read.               *)

\* Mutant: the minibatch size is not compared.
SetConfigurationError_NoMinibatch(i, config) ==
    IF config.m_numberOfWorkers # m_numberOfWorkers[i]
    THEN "Number of workers changed since StartEpoch"
    ELSE IF config.m_workerRank # m_workerRank[i]
    THEN "Workers rank changed since StartEpoch"
    ELSE "ok"

SetConfigurationError(i, config) ==
    IF config.m_numberOfWorkers # m_numberOfWorkers[i]
    THEN "Number of workers changed since StartEpoch"
    ELSE IF config.m_workerRank # m_workerRank[i]
    THEN "Workers rank changed since StartEpoch"
    ELSE IF config.m_minibatchSizeInSamples # m_minibatchSize[i]
    THEN "Minibatch size changed since StartEpoch"
    ELSE "ok"

SetConfiguration(i, config) ==
    /\ constructed[i] = "ok"
    /\ last' = Call("SetConfiguration", i, SetConfigurationError(i, config), NoBatch)
    /\ UNCHANGED << epochVars, ctorVars, m_example, m_dsLoader, epochConfig, heap, reads >>

-----------------------------------------------------------------------------
(* DataSource::GetNextSequences.                                            *)

\* Mutant: a smaller demand than the minibatch size is let through.
DemandMatches_AtMost(totalSampleCount, minibatchSize) == totalSampleCount <= minibatchSize

\* "We expect that we are asked for number of samples equal to minibatch size."
DemandMatches(totalSampleCount, minibatchSize) == totalSampleCount = minibatchSize

\* Mutant: a last minibatch of exactly sampleCount samples is not seen as
\* the last one.
EndOfEpochAdjust_StrictlyLess(appendLastMinibatch, remainingEpochSamples, sampleCount) ==
    IF appendLastMinibatch /\ remainingEpochSamples <= 2 * sampleCount
    THEN IF remainingEpochSamples # sampleCount + 1
         THEN [err |-> "Appending more than one sample", sampleCount |-> sampleCount,
               m_endOfEpoch |-> FALSE]
         ELSE [err |-> "ok", sampleCount |-> remainingEpochSamples, m_endOfEpoch |-> TRUE]
    ELSE IF ~appendLastMinibatch /\ remainingEpochSamples < sampleCount
    THEN [err |-> "ok", sampleCount |-> remainingEpochSamples, m_endOfEpoch |-> TRUE]
    ELSE [err |-> "ok", sampleCount |-> sampleCount, m_endOfEpoch |-> FALSE]

\* Mutant: the last minibatch is read in full, whatever is left of the epoch.
EndOfEpochAdjust_FullLast(appendLastMinibatch, remainingEpochSamples, sampleCount) ==
    IF appendLastMinibatch /\ remainingEpochSamples <= 2 * sampleCount
    THEN IF remainingEpochSamples # sampleCount + 1
         THEN [err |-> "Appending more than one sample", sampleCount |-> sampleCount,
               m_endOfEpoch |-> FALSE]
         ELSE [err |-> "ok", sampleCount |-> remainingEpochSamples, m_endOfEpoch |-> TRUE]
    ELSE IF ~appendLastMinibatch /\ remainingEpochSamples <= sampleCount
    THEN [err |-> "ok", sampleCount |-> sampleCount, m_endOfEpoch |-> TRUE]
    ELSE [err |-> "ok", sampleCount |-> sampleCount, m_endOfEpoch |-> FALSE]

\* The end-of-epoch corner case: how many samples this call takes, whether
\* it ends the epoch, or the error it throws.
EndOfEpochAdjust(appendLastMinibatch, remainingEpochSamples, sampleCount) ==
    IF appendLastMinibatch /\ remainingEpochSamples <= 2 * sampleCount
    THEN IF remainingEpochSamples # sampleCount + 1
         THEN [err |-> "Appending more than one sample", sampleCount |-> sampleCount,
               m_endOfEpoch |-> FALSE]
         ELSE [err |-> "ok", sampleCount |-> remainingEpochSamples, m_endOfEpoch |-> TRUE]
    ELSE IF ~appendLastMinibatch /\ remainingEpochSamples <= sampleCount
    THEN [err |-> "ok", sampleCount |-> remainingEpochSamples, m_endOfEpoch |-> TRUE]
    ELSE [err |-> "ok", sampleCount |-> sampleCount, m_endOfEpoch |-> FALSE]

DenseSequenceDataIds(id, sampleLayout, ownedData) ==
    [ kind |-> "dense", m_id |-> id, m_numberOfSamples |-> 1,
      m_sampleLayout |-> sampleLayout, m_ownedData |-> ownedData ]

SparseSequenceDataIds(id, indicesMemory, valuesMemory) ==
    [ kind |-> "sparse", m_id |-> id, m_numberOfSamples |-> 1,
      m_nnzCounts |-> << Len(valuesMemory) >>, m_totalNnzCount |-> Len(valuesMemory),
      m_valuesMemory |-> valuesMemory, m_indicesMemory |-> indicesMemory ]

\* The sequence a dense stream gets from the swapped-out blob.
DenseSequence(ismpl, shape, swap) ==
    [ err |-> "ok", example |-> swap.example,
      seqs |-> << DenseSequenceDataIds(ismpl, TensorShape(shape[1], shape[2], shape[3]),
                                       swap.outer) >> ]

\* The dense branch for one stream: [err, example, seqs].
DenseStream(example, streamDescriptor, ismpl) ==
    IF ~streamDescriptor.ignoreStream.isNull
    THEN [err |-> "Dense input cannot have ignore label", example |-> example, seqs |-> << >>]
    ELSE IF BlobIndexFromName(example, streamDescriptor.datasetName) = -1
    THEN [err |-> "Blob not found", example |-> example, seqs |-> << >>]
    ELSE DenseSequence(ismpl, Reverse(GetBlobShape(example, streamDescriptor.datasetName)),
                       SwapBlobData(example, streamDescriptor.datasetName, << >>))

\* Whether label c is the ignore label of a stream that has one.
IsIgnored(streamDescriptor, c) ==
    ~streamDescriptor.ignoreStream.isNull /\ c = streamDescriptor.ignoreStream.ignoreLabel

\* "Here we need to be within the range.": c is an int, outChannels a size_t.
InvalidChannel(c, outChannels) == c < 0 \/ ToSizeT(c) > ToSizeT(outChannels - 1)

\* The index of the nonzero at position inz (0-based) with label c.
SparseIndex(streamDescriptor, c, spatialSize, inz) ==
    IF IsIgnored(streamDescriptor, c) THEN inz
    ELSE ToSizeT(c * spatialSize + inz)

\* The ignore mask: all ones, zero where the label is the ignore label.
IgnoreSequence(ismpl, ignoreDims, streamDescriptor, labels) ==
    DenseSequenceDataIds(ismpl, TensorShape(ignoreDims[1], ignoreDims[2], ignoreDims[3]),
        [inz \in 1..(ignoreDims[1] * ignoreDims[2] * ignoreDims[3]) |->
            IF inz <= Len(labels) /\ IsIgnored(streamDescriptor, labels[inz])
            THEN Float(0) ELSE Float(1)])

\* The conversion of the labels c (the swapped-out blob, cast to int) of one
\* sparse stream, dims being its sample layout.
SparseSequences(inputStreams, istr, example, streamDescriptor, ismpl, dims, labels) ==
    IF Len(labels) # dims[1] * dims[2]
    THEN [err |-> "Unexpected sparse data count", example |-> example, seqs |-> << >>]
    ELSE IF \E inz \in 1..Len(labels) :
                /\ ~IsIgnored(streamDescriptor, labels[inz])
                /\ InvalidChannel(labels[inz], dims[3])
    THEN [err |-> "Invalid channel value in sparse input stream",
          example |-> example, seqs |-> << >>]
    ELSE [ err |-> "ok", example |-> example,
           seqs |->
             << SparseSequenceDataIds(ismpl,
                    [inz \in 1..Len(labels) |->
                        SparseIndex(streamDescriptor, labels[inz], dims[1] * dims[2], inz - 1)],
                    [inz \in 1..Len(labels) |-> Float(1)]) >>
             \o (IF streamDescriptor.ignoreStream.isNull THEN << >>
                 ELSE << IgnoreSequence(ismpl, inputStreams[istr + 1].m_sampleLayout,
                                        streamDescriptor, labels) >>) ]

SparseSwapped(inputStreams, istr, streamDescriptor, ismpl, swap) ==
    SparseSequences(inputStreams, istr, swap.example, streamDescriptor, ismpl,
                    inputStreams[istr].m_sampleLayout,
                    [inz \in 1..Len(swap.outer) |-> StaticCastInt(swap.outer[inz])])

\* The sparse branch for one stream, the ignore mask included: [err, example, seqs].
SparseStream(inputStreams, istr, example, streamDescriptor, ismpl) ==
    IF ~streamDescriptor.ignoreStream.isNull /\ istr + 1 > Len(inputStreams)
    THEN [err |-> "Invalid number of input streams", example |-> example, seqs |-> << >>]
    ELSE IF BlobIndexFromName(example, streamDescriptor.datasetName) = -1
    THEN [err |-> "Blob not found", example |-> example, seqs |-> << >>]
    ELSE SparseSwapped(inputStreams, istr, streamDescriptor, ismpl,
                       SwapBlobData(example, streamDescriptor.datasetName, << >>))

\* One pass of the while loop over the streams: the stream at istr.
OneStream(inputStreams, istr, example, streamDescriptor, ismpl) ==
    IF inputStreams[istr].m_storageType = "dense"
    THEN DenseStream(example, streamDescriptor, ismpl)
    ELSE SparseStream(inputStreams, istr, example, streamDescriptor, ismpl)

JoinStreams(run, one) ==
    [err |-> one.err, example |-> one.example, seqs |-> run.seqs \o one.seqs]

\* The while loop over the streams of one sample.  run is [err, example,
\* seqs]: seqs[istr] is the sequence of stream istr (1-based).
RECURSIVE FillStreams(_, _, _, _, _)
FillStreams(inputStreams, streamDescriptors, ismpl, iStreamDesc, run) ==
    IF run.err # "ok" \/ Len(run.seqs) + 1 > Len(inputStreams) THEN run
    ELSE FillStreams(inputStreams, streamDescriptors, ismpl, iStreamDesc + 1,
                     JoinStreams(run, OneStream(inputStreams, Len(run.seqs) + 1, run.example,
                                                streamDescriptors[iStreamDesc], ismpl)))

\* The end of one pass of the for loop over the samples: the loader is asked
\* for the next example once all streams of the sample are filled.
Pulled(samples, next) ==
    [err |-> "ok", loader |-> next.loader, example |-> next.example, samples |-> samples]

\* Mutant: the loader is not asked for the next example.
NextSample_NoPull(run, streams) ==
    IF streams.err # "ok"
    THEN [run EXCEPT !.err = streams.err, !.example = streams.example]
    ELSE Pulled(Append(run.samples, streams.seqs),
                [loader |-> run.loader, example |-> streams.example])

NextSample(run, streams) ==
    IF streams.err # "ok"
    THEN [run EXCEPT !.err = streams.err, !.example = streams.example]
    ELSE Pulled(Append(run.samples, streams.seqs), GetExample(run.loader, streams.example))

\* The for loop over the samples.  run is [err, loader, example, samples]:
\* samples[ismpl + 1] holds the sequences of sample ismpl, one per stream.
RECURSIVE FillSamples(_, _, _, _, _)
FillSamples(inputStreams, streamDescriptors, sampleCount, ismpl, run) ==
    IF run.err # "ok" \/ ismpl >= sampleCount THEN run
    ELSE FillSamples(inputStreams, streamDescriptors, sampleCount, ismpl + 1,
            NextSample(run, FillStreams(inputStreams, streamDescriptors, ismpl, 1,
                            [err |-> "ok", example |-> run.example, seqs |-> << >>])))

\* sequences.m_data[istr][ismpl], both 1-based here.
SequencesData(streamCount, samples) ==
    [istr \in 1..streamCount |-> [ismpl \in 1..Len(samples) |-> samples[ismpl][istr]]]

\* A call that throws before the loop over the samples touches nothing.
Thrown(i, err) ==
    [err |-> err, sequences |-> NoBatch, loader |-> m_dsLoader[i],
     example |-> m_example[i], sampleCount |-> 0, pulls |-> 0]

\* The outcome of the loop over the samples.
Filled(i, adjust, run) ==
    IF run.err # "ok"
    THEN [err |-> run.err, sequences |-> NoBatch, loader |-> run.loader,
          example |-> run.example, sampleCount |-> 0, pulls |-> Len(run.samples)]
    ELSE [err |-> "ok",
          sequences |-> [m_endOfEpoch |-> adjust.m_endOfEpoch,
                         m_data |-> SequencesData(Len(m_inputStreams[i]), run.samples)],
          loader |-> run.loader, example |-> run.example,
          sampleCount |-> adjust.sampleCount, pulls |-> Len(run.samples)]

Adjusted(i, adjust) ==
    IF adjust.err # "ok" THEN Thrown(i, adjust.err)
    ELSE Filled(i, adjust,
                FillSamples(m_inputStreams[i], m_streamDescriptors[i], adjust.sampleCount, 0,
                            [err |-> "ok", loader |-> m_dsLoader[i], example |-> m_example[i],
                             samples |-> << >>]))

\* The whole call on reader i: [err, sequences, loader, example, sampleCount,
\* pulls], pulls being the number of GetExample calls it made.
NextSequences(i, totalSampleCount) ==
    IF ~DemandMatches(totalSampleCount, m_minibatchSize[i])
    THEN Thrown(i, "Mismatch between minibatch size and demanded sample count")
    ELSE IF totalSampleCount \div m_numberOfWorkers[i] = 0
    THEN Thrown(i, "Greater number of workers than samples in minibatch")
    ELSE Adjusted(i, EndOfEpochAdjust(m_appendLastMinibatch[i],
                        ToSizeT(m_epochSize[i] - m_currEpochSampleCount[i]),
                        totalSampleCount \div m_numberOfWorkers[i]))

\* The effect of a call with outcome `call` on the state.
Returned(i, call) ==
    /\ m_dsLoader' = [m_dsLoader EXCEPT ![i] = call.loader]
    /\ m_example' = [m_example EXCEPT ![i] = call.example]
    /\ m_currEpochSampleCount' = [m_currEpochSampleCount EXCEPT ![i] =
                                    ToSizeT(@ + call.sampleCount)]
    /\ last' = Call("GetNextSequences", i, call.err, call.sequences)

GetNextSequences(i, totalSampleCount) ==
    /\ constructed[i] = "ok"
    /\ Returned(i, NextSequences(i, totalSampleCount))
    /\ UNCHANGED << m_epochSize, m_minibatchSize, m_appendLastMinibatch, ctorVars,
                    epochConfig >>

-----------------------------------------------------------------------------
(* Ownership of the float buffers.  A std::vector owns one heap buffer, or  *)
(* none while it is empty; buffers are numbered from 1 in the order of      *)
(* their allocation and 0 stands for "no buffer".  The history of a reader  *)
(* is [slots, next, batch, moved, dirty]: the buffer of every adapter slot  *)
(* (m_blobs[ib]), the number of the next allocation, the buffers of the     *)
(* dense sequences of the last batch (per sample, per stream descriptor),   *)
(* the buffers that were ever moved into a dense sequence, and those of     *)
(* them that the loader wrote to after the move.  The blobs of a dataset    *)
(* keep their sizes, so that resize allocates only for an empty vector.     *)

\* The history of a reader whose buffers are not recorded.
NoHeap == [ slots |-> << >>, next |-> 0, batch |-> << >>, moved |-> {}, dirty |-> {} ]

\* m_blobs[index].resize(channels * height * width) of ReshapeBlob.
HeapReshapeBlob(h, index, size) ==
    IF h.slots[index] = 0 /\ size > 0
    THEN [h EXCEPT !.slots[index] = h.next, !.next = @ + 1]
    ELSE h

\* The loader writes through the pointer GetBlobMemory(index) returned.
HeapWriteBlobMemory(h, index) ==
    IF h.slots[index] \in h.moved
    THEN [h EXCEPT !.dirty = @ \cup {h.slots[index]}]
    ELSE h

\* Mutant: the caller's vector is pointed at the blob's buffer, which the
\* blob keeps.
HeapSwapBlobData_Shares(h, index, outer) ==
    [ heap |-> h, outer |-> h.slots[index] ]

\* m_blobs[index].swap(outer): the two vectors exchange their buffers.
HeapSwapBlobData(h, index, outer) ==
    [ heap |-> [h EXCEPT !.slots[index] = outer], outer |-> h.slots[index] ]

\* GetExample: the loader reshapes and writes every blob of the adapter.
RECURSIVE HeapGetExample(_, _, _)
HeapGetExample(h, blobs, ib) ==
    IF ib > Len(blobs) THEN h
    ELSE LET shape == blobs[ib].shape
         IN  HeapGetExample(
                 HeapWriteBlobMemory(HeapReshapeBlob(h, ib, shape[1] * shape[2] * shape[3]), ib),
                 blobs, ib + 1)

\* A dense stream swaps the blob with the m_ownedData of a new sequence,
\* which owns the buffer from then on; a sparse stream swaps it with the
\* local vector `data`, which is destroyed with its buffer.
HeapMoved(h, storageType, swap) ==
    IF storageType = "dense" /\ swap.outer # 0
    THEN [swap.heap EXCEPT !.moved = @ \cup {swap.outer},
                           !.batch[Len(h.batch)] = Append(@, swap.outer)]
    ELSE [swap.heap EXCEPT !.batch[Len(h.batch)] = Append(@, 0)]

\* The streams of one sample, one per stream descriptor.
RECURSIVE HeapStreams(_, _, _, _)
HeapStreams(h, example, streamDescriptors, iStreamDesc) ==
    IF iStreamDesc > Len(streamDescriptors) THEN h
    ELSE LET streamDescriptor == streamDescriptors[iStreamDesc]
         IN  HeapStreams(
                 HeapMoved(h, streamDescriptor.datasetStorageType,
                           HeapSwapBlobData(h, BlobIndexFromName(example, streamDescriptor.datasetName), 0)),
                 example, streamDescriptors, iStreamDesc + 1)

\* The samples of a call that completed `pulls` of them, the loader being
\* at `loader` when the call began.  Nothing is recorded for a reader
\* whose buffers are not (next = 0).
RECURSIVE HeapSamples(_, _, _, _, _, _)
HeapSamples(h, example, streamDescriptors, loader, pulls, ismpl) ==
    IF h.next = 0 \/ ismpl >= pulls THEN h
    ELSE HeapSamples(
             HeapGetExample(
                 HeapStreams([h EXCEPT !.batch = Append(@, << >>)], example, streamDescriptors, 1),
                 loader.examples[((loader.position + ismpl) % Len(loader.examples)) + 1], 1),
             example, streamDescriptors, loader, pulls, ismpl + 1)

\* A call that threw inside the loop had swapped out the blobs that the
\* adapter holds empty, and its sequences are destroyed.
HeapThrown(h, example) ==
    [h EXCEPT !.slots = [ib \in 1..Len(h.slots) |->
                            IF example.m_blobs[ib] = << >> THEN 0 ELSE h.slots[ib]],
              !.batch = << >>]

\* The history of reader i after a GetNextSequences with outcome `call`.
HeapAfter(i, call) ==
    LET samples == HeapSamples([heap[i] EXCEPT !.batch = << >>], m_example[i],
                               m_streamDescriptors[i], m_dsLoader[i], call.pulls, 0)
    IN  IF call.err = "ok" THEN samples ELSE HeapThrown(samples, call.example)

\* The history after the constructor: ImageDatasetExample resizes m_blobs
\* to empty vectors and the probe fills them.
HeapOf(loader) ==
    HeapGetExample([NoHeap EXCEPT !.slots = [ib \in 1..GetBlobsCount(loader) |-> 0], !.next = 1],
                   loader.examples[1], 1)

-----------------------------------------------------------------------------
(* The inputs of the model.                                                 *)

NoIgnoreStream == [isNull |-> TRUE, ignoreStreamName |-> "", ignoreLabel |-> 0]

IgnoreStream(name, label) == [isNull |-> FALSE, ignoreStreamName |-> name, ignoreLabel |-> label]

StreamDescriptor(name, datasetName, storageType, dimension, ignoreStream) ==
    [ name |-> name, datasetName |-> datasetName, datasetStorageType |-> storageType,
      dimension |-> dimension, ignoreStream |-> ignoreStream ]

Blob(shape, content) == [shape |-> shape, content |-> content]

Loader(blobNames, examples) == [blobNames |-> blobNames, examples |-> examples, position |-> 0]

\* An image of 1 channel, 1 row and 2 columns with its per-pixel labels.
Example(pixels, labels) ==
    << Blob(<< 1, 1, 2 >>, << Float(pixels[1]), Float(pixels[2]) >>),
       Blob(<< 1, 1, 2 >>, << Float(labels[1]), Float(labels[2]) >>) >>

\* A dataset of two examples read through one dense stream.
DenseScene ==
    [ streamDescriptors |-> << StreamDescriptor("features", "data", "dense", 0, NoIgnoreStream) >>,
      loader |-> Loader(<< "data", "label" >>,
                        << Example(<< 1, 2 >>, << 0, 1 >>), Example(<< 3, 4 >>, << 1, 0 >>) >>) ]

\* A dataset of three examples read through a dense stream and a two-class
\* sparse stream with an ignore mask; the third example carries a label that
\* is neither a class nor the ignore label.
LabelScene ==
    [ streamDescriptors |-> << StreamDescriptor("features", "data", "dense", 0, NoIgnoreStream),
                               StreamDescriptor("labels", "label", "sparse_csc", 2,
                                                IgnoreStream("ignore", 2)) >>,
      loader |-> Loader(<< "data", "label" >>,
                        << Example(<< 1, 2 >>, << 0, 1 >>), Example(<< 3, 4 >>, << 2, 0 >>),
                           Example(<< 5, 6 >>, << 1, 3 >>) >>) ]

Scenes == { DenseScene, LabelScene }

\* What m_minibatchSize and m_appendLastMinibatch may hold before the first
\* StartEpoch writes them: the constructor initialises neither, so a read
\* finds any value; the model tries a size no minibatch has and one that a
\* request can match.
Uninitialised == [m_minibatchSize : {0, MaxMinibatch}, m_appendLastMinibatch : BOOLEAN]

EpochConfiguration(workerRank, numberOfWorkers, minibatchSize, totalEpochSize) ==
    [ m_workerRank |-> workerRank, m_numberOfWorkers |-> numberOfWorkers,
      m_minibatchSizeInSamples |-> minibatchSize, m_totalEpochSizeInSamples |-> totalEpochSize ]

\* Minibatch and epoch sizes a caller asks for: the grid, and the sizes of
\* the documented scenario (an epoch of 100 samples in minibatches of 10).
MinibatchSizes == (1..MaxMinibatch) \cup {10}

EpochSizes == (0..MaxEpoch) \cup {requestDataSize}

EpochRequests == (EpochSizes \X (1..MaxMinibatch)) \cup {<< 100, 10 >>}

\* The configurations a caller hands to reader i: every request with the
\* reader's own rank and worker count, and for each other rank or worker
\* count one request.
EpochConfigurations(i) ==
    { EpochConfiguration(m_workerRank[i], m_numberOfWorkers[i], r[2], r[1]) : r \in EpochRequests }
    \cup { EpochConfiguration(rank, m_numberOfWorkers[i], m_numberOfWorkers[i], MaxEpoch) :
             rank \in (0..MaxWorkers-1) \ {m_workerRank[i]} }
    \cup { EpochConfiguration(m_workerRank[i], n, n, MaxEpoch) :
             n \in (1..MaxWorkers) \ {m_numberOfWorkers[i]} }

ReaderConfigurations(i) ==
    { EpochConfiguration(m_workerRank[i], m_numberOfWorkers[i], m, 0) : m \in MinibatchSizes }
    \cup { EpochConfiguration(rank, m_numberOfWorkers[i], m_minibatchSize[i], 0) :
             rank \in (0..MaxWorkers-1) \ {m_workerRank[i]} }
    \cup { EpochConfiguration(m_workerRank[i], n, m_minibatchSize[i], 0) :
             n \in (1..MaxWorkers) \ {m_numberOfWorkers[i]} }

SampleCounts == (0..MaxMinibatch) \cup {10}

-----------------------------------------------------------------------------
(* The specifications.                                                      *)

\* The state after the constructor ran once per reader of `configs`, a
\* function from the readers to their construction configurations.
Constructed(configs, uninit) ==
    LET object(i) == DataSource(configs[i], uninit[i])
    IN  /\ m_epochSize = [i \in DOMAIN configs |-> object(i).m_epochSize]
        /\ m_currEpochSampleCount = [i \in DOMAIN configs |-> object(i).m_currEpochSampleCount]
        /\ m_minibatchSize = [i \in DOMAIN configs |-> object(i).m_minibatchSize]
        /\ m_appendLastMinibatch = [i \in DOMAIN configs |-> object(i).m_appendLastMinibatch]
        /\ m_workerRank = [i \in DOMAIN configs |-> object(i).m_workerRank]
        /\ m_numberOfWorkers = [i \in DOMAIN configs |-> object(i).m_numberOfWorkers]
        /\ m_epochOverride = [i \in DOMAIN configs |-> object(i).m_epochOverride]
        /\ m_streamDescriptors = [i \in DOMAIN configs |-> object(i).m_streamDescriptors]
        /\ m_inputStreams = [i \in DOMAIN configs |-> object(i).m_inputStreams]
        /\ m_outputStreams = [i \in DOMAIN configs |-> object(i).m_outputStreams]
        /\ m_example = [i \in DOMAIN configs |-> object(i).m_example]
        /\ m_dsLoader = [i \in DOMAIN configs |-> object(i).m_dsLoader]
        /\ constructed = [i \in DOMAIN configs |-> object(i).constructed]
        /\ epochConfig = [i \in DOMAIN configs |-> NoConfig]
        /\ last = Call("DataSource", 0, "ok", NoBatch)

Configuration(workerRank, workersCount, epochOverride, scene) ==
    [ workerRank |-> workerRank, workersCount |-> workersCount, epochOverride |-> epochOverride,
      streamDescriptors |-> scene.streamDescriptors, loader |-> scene.loader ]

\* One reader, of any rank of any job.
Init ==
    \E workersCount \in 1..MaxWorkers, workerRank \in 0..MaxWorkers-1,
       epochOverride \in BOOLEAN, scene \in Scenes, uninit \in Uninitialised :
        /\ workerRank < workersCount
        /\ Constructed([i \in {0} |-> Configuration(workerRank, workersCount, epochOverride, scene)],
                       [i \in {0} |-> uninit])
        /\ heap = [i \in {0} |-> NoHeap]
        /\ reads = [i \in {0} |-> NoReads]

StartEpochCall ==
    \E i \in Readers : \E config \in EpochConfigurations(i) :
        StartEpoch(i, config) /\ UNCHANGED reads

SetConfigurationCall ==
    \E i \in Readers : \E config \in ReaderConfigurations(i) : SetConfiguration(i, config)

GetNextSequencesCall ==
    \E i \in Readers : \E totalSampleCount \in SampleCounts :
        GetNextSequences(i, totalSampleCount) /\ UNCHANGED << heap, reads >>

Next == StartEpochCall \/ SetConfigurationCall \/ GetNextSequencesCall

Spec == Init /\ [][Next]_vars

\* A dataset of one example read through one dense stream.
WorkerScene ==
    [ streamDescriptors |-> << StreamDescriptor("features", "data", "dense", 0, NoIgnoreStream) >>,
      loader |-> Loader(<< "data", "label" >>, << Example(<< 1, 2 >>, << 0, 1 >>) >>) ]

\* The readers of one distributed job: reader i has rank i.  No reader of
\* this specification reads a field before StartEpoch has written it, so
\* the readers are given the same uninitialised values.
InitWorkers ==
    \E workersCount \in 1..MaxWorkers, epochOverride \in BOOLEAN, uninit \in Uninitialised :
        /\ Constructed([i \in 0..workersCount-1 |->
                           Configuration(i, workersCount, epochOverride, WorkerScene)],
                       [i \in 0..workersCount-1 |-> uninit])
        /\ heap = [i \in 0..workersCount-1 |-> NoHeap]
        /\ reads = [i \in 0..workersCount-1 |-> NoReads]

\* Whether the readers that started an epoch all started it with request r.
SameRequest(r) ==
    \A j \in Readers :
        epochConfig[j] # NoConfig =>
            /\ epochConfig[j].m_totalEpochSizeInSamples = r[1]
            /\ epochConfig[j].m_minibatchSizeInSamples = r[2]

\* The harness of a job hands every reader its own rank, the worker count
\* and one epoch configuration, whose minibatch size the workers divide, and
\* reads minibatches of the configured size once the epoch has started.
WorkerStartEpoch ==
    \E i \in Readers : \E r \in EpochSizes \X (1..MaxMinibatch) :
        /\ r[2] % m_numberOfWorkers[i] = 0
        /\ SameRequest(r)
        /\ StartEpoch(i, EpochConfiguration(m_workerRank[i], m_numberOfWorkers[i], r[2], r[1]))
        /\ UNCHANGED reads

WorkerSetConfiguration ==
    \E i \in Readers :
        /\ epochConfig[i] # NoConfig
        /\ SetConfiguration(i, EpochConfiguration(m_workerRank[i], m_numberOfWorkers[i],
                                                  m_minibatchSize[i], 0))

WorkerGetNextSequences ==
    \E i \in Readers :
        /\ epochConfig[i] # NoConfig
        /\ GetNextSequences(i, m_minibatchSize[i])
        /\ UNCHANGED << heap, reads >>

NextWorkers == WorkerStartEpoch \/ WorkerSetConfiguration \/ WorkerGetNextSequences

SpecWorkers == InitWorkers /\ [][NextWorkers]_vars

\* A blob of 1 channel, 1 row and one column per value.
Row(values) == Blob(<< 1, 1, Len(values) >>, [k \in 1..Len(values) |-> Float(values[k])])

\* Two dense streams read the same blob of the dataset.
SameBlobScene ==
    [ streamDescriptors |-> << StreamDescriptor("features", "data", "dense", 0, NoIgnoreStream),
                               StreamDescriptor("copy", "data", "dense", 0, NoIgnoreStream) >>,
      loader |-> Loader(<< "data", "label" >>,
                        << Example(<< 1, 2 >>, << 0, 1 >>), Example(<< 3, 4 >>, << 1, 0 >>) >>) ]

\* Three classes over three positions, no ignore mask; the third example
\* carries the label 3, which is no class.
OneHotScene ==
    [ streamDescriptors |-> << StreamDescriptor("features", "data", "dense", 0, NoIgnoreStream),
                               StreamDescriptor("labels", "label", "sparse_csc", 3, NoIgnoreStream) >>,
      loader |-> Loader(<< "data", "label" >>,
                        << << Row(<< 1, 2, 3 >>), Row(<< 2, 0, 1 >>) >>,
                           << Row(<< 4, 5, 6 >>), Row(<< 0, 2, 2 >>) >>,
                           << Row(<< 7, 8, 9 >>), Row(<< 1, 3, 0 >>) >> >>) ]

\* Two classes over three positions with the ignore label 2, the sparse
\* stream declared before the dense one; the third example carries the
\* label -1.
MaskScene ==
    [ streamDescriptors |-> << StreamDescriptor("labels", "label", "sparse_csc", 2,
                                                IgnoreStream("ignore", 2)),
                               StreamDescriptor("features", "data", "dense", 0, NoIgnoreStream) >>,
      loader |-> Loader(<< "data", "label" >>,
                        << << Row(<< 1, 2, 3 >>), Row(<< 2, 1, 0 >>) >>,
                           << Row(<< 4, 5, 6 >>), Row(<< 2, 2, 1 >>) >>,
                           << Row(<< 7, 8, 9 >>), Row(<< 0, -1, 2 >>) >> >>) ]

\* A sparse stream declared with the channel dimension `dimension`, with or
\* without an ignore stream.
DimensionScene(dimension, ignoreStream) ==
    [ streamDescriptors |-> << StreamDescriptor("labels", "label", "sparse_csc", dimension,
                                                ignoreStream) >>,
      loader |-> Loader(<< "data", "label" >>,
                        << Example(<< 1, 2 >>, << 0, 1 >>), Example(<< 3, 4 >>, << 1, 0 >>) >>) ]

\* A descriptor names a blob the dataset does not have.
MissingBlobScene ==
    [ streamDescriptors |-> << StreamDescriptor("features", "data", "dense", 0, NoIgnoreStream),
                               StreamDescriptor("depth", "depth", "dense", 0, NoIgnoreStream) >>,
      loader |-> Loader(<< "data", "label" >>,
                        << Example(<< 1, 2 >>, << 0, 1 >>), Example(<< 3, 4 >>, << 1, 0 >>) >>) ]

\* A sparse stream reads a blob of two channels.
ChannelsScene ==
    [ streamDescriptors |-> << StreamDescriptor("features", "data", "dense", 0, NoIgnoreStream),
                               StreamDescriptor("labels", "label", "sparse_csc", 2, NoIgnoreStream) >>,
      loader |-> Loader(<< "data", "label" >>,
                        << << Row(<< 1, 2 >>), Blob(<< 2, 1, 1 >>, << Float(0), Float(1) >>) >>,
                           << Row(<< 3, 4 >>), Blob(<< 2, 1, 1 >>, << Float(1), Float(0) >>) >> >>) ]

\* A dense stream is declared with an ignore stream, before a sparse stream
\* that has one.
DenseIgnoreScene ==
    [ streamDescriptors |-> << StreamDescriptor("features", "data", "dense", 0,
                                                IgnoreStream("unused", 0)),
                               StreamDescriptor("labels", "label", "sparse_csc", 2,
                                                IgnoreStream("ignore", 2)) >>,
      loader |-> Loader(<< "data", "label" >>,
                        << Example(<< 1, 2 >>, << 0, 1 >>), Example(<< 3, 4 >>, << 2, 0 >>) >>) ]

\* The configurations of the streams the model constructs readers for.
StreamScenes ==
    Scenes \cup { SameBlobScene, OneHotScene, MaskScene, MissingBlobScene, ChannelsScene,
                  DenseIgnoreScene }
    \cup { DimensionScene(dimension, ignoreStream) :
             dimension \in {0, 1, 2}, ignoreStream \in {NoIgnoreStream, IgnoreStream("ignore", 1)} }

\* The only reader of a job, over every configuration of the streams.
InitStreams ==
    \E scene \in StreamScenes, uninit \in Uninitialised :
        /\ Constructed([i \in {0} |-> Configuration(0, 1, FALSE, scene)], [i \in {0} |-> uninit])
        /\ heap = [i \in {0} |-> NoHeap]
        /\ reads = [i \in {0} |-> NoReads]

SpecStreams == InitStreams /\ [][Next]_vars

\* One reader whose buffers are recorded.
InitBuffers ==
    \E workersCount \in 1..MaxWorkers, workerRank \in 0..MaxWorkers-1,
       scene \in Scenes, uninit \in Uninitialised :
        /\ workerRank < workersCount
        /\ Constructed([i \in {0} |-> Configuration(workerRank, workersCount, FALSE, scene)],
                       [i \in {0} |-> uninit])
        /\ heap = [i \in {0} |-> HeapOf(scene.loader)]
        /\ reads = [i \in {0} |-> NoReads]

\* GetNextSequences, as long as the reader allocated no more than
\* MaxBuffers buffers.
BuffersGetNextSequences ==
    \E i \in Readers : \E totalSampleCount \in SampleCounts :
        /\ heap[i].next <= MaxBuffers
        /\ GetNextSequences(i, totalSampleCount)
        /\ heap' = [heap EXCEPT ![i] = HeapAfter(i, NextSequences(i, totalSampleCount))]
        /\ UNCHANGED reads

NextBuffers == StartEpochCall \/ SetConfigurationCall \/ BuffersGetNextSequences

SpecBuffers == InitBuffers /\ [][NextBuffers]_vars

\* A dataset of one example read through a dense stream and a two-class
\* sparse stream with an ignore mask; every label is a class or the ignore
\* label.
EpochScene ==
    [ streamDescriptors |-> << StreamDescriptor("features", "data", "dense", 0, NoIgnoreStream),
                               StreamDescriptor("labels", "label", "sparse_csc", 2,
                                                IgnoreStream("ignore", 2)) >>,
      loader |-> Loader(<< "data", "label" >>, << << Row(<< 1, 2, 3 >>), Row(<< 1, 2, 0 >>) >> >>) ]

\* The readers of one distributed job, reader i of rank i, whose calls of
\* GetNextSequences are counted.
InitEpochs ==
    \E workersCount \in 1..MaxWorkers, epochOverride \in BOOLEAN, uninit \in Uninitialised :
        /\ Constructed([i \in 0..workersCount-1 |->
                           Configuration(i, workersCount, epochOverride, EpochScene)],
                       [i \in 0..workersCount-1 |-> uninit])
        /\ heap = [i \in 0..workersCount-1 |-> NoHeap]
        /\ reads = [i \in 0..workersCount-1 |-> NoReads]

\* The caller starts an epoch on reader i, which is not in the middle of
\* one: with the reader's rank and worker count, a minibatch size the
\* worker count divides and the request of the other workers.
EpochStart(i) ==
    \E r \in EpochSizes \X (1..MaxMinibatch) :
        LET config == EpochConfiguration(m_workerRank[i], m_numberOfWorkers[i], r[2], r[1])
        IN  /\ epochConfig[i] = NoConfig \/ reads[i].m_endOfEpoch
            /\ r[2] % m_numberOfWorkers[i] = 0
            /\ SameRequest(r)
            /\ StartEpoch(i, config)
            /\ reads' = IF StartEpochError(i, config) = "ok"
                        THEN [reads EXCEPT ![i] = NoReads]
                        ELSE reads

\* The caller of reader i has a minibatch to read: the reader started an
\* epoch and has not told the end of it yet.  An epoch of MaxEpoch samples
\* takes no more than MaxEpoch calls.
Reading(i) ==
    /\ i \in Readers
    /\ epochConfig[i] # NoConfig
    /\ ~reads[i].m_endOfEpoch
    /\ reads[i].calls <= MaxEpoch

\* The caller reads the next minibatch of the epoch of reader i.
EpochRead(i) ==
    /\ Reading(i)
    /\ GetNextSequences(i, m_minibatchSize[i])
    /\ reads' = [reads EXCEPT ![i] =
                    [calls |-> @.calls + 1,
                     m_endOfEpoch |-> /\ NextSequences(i, m_minibatchSize[i]).err = "ok"
                                      /\ NextSequences(i, m_minibatchSize[i]).sequences.m_endOfEpoch]]
    /\ UNCHANGED heap

EpochStartCall == \E i \in Readers : EpochStart(i)

EpochReadCall == \E i \in 0..MaxWorkers-1 : i \in Readers /\ EpochRead(i)

NextEpochs == EpochStartCall \/ EpochReadCall

SpecEpochs == InitEpochs /\ [][NextEpochs]_vars

\* The caller of every reader goes on reading as long as the epoch lasts:
\* WF_vars(EpochRead(i)) for every reader i, with ENABLED <<EpochRead(i)>>_vars
\* written out as Reading(i), every call changing reads[i].
FairEpochs ==
    SpecEpochs /\ \A i \in 0..MaxWorkers-1 : ([]<>(~Reading(i)) \/ []<><<EpochRead(i)>>_vars)

-----------------------------------------------------------------------------
(* Properties.                                                              *)

\* The global epoch size of the configuration reader i started its epoch with.
EpochOf(i) ==
    IF epochConfig[i].m_totalEpochSizeInSamples # requestDataSize
    THEN epochConfig[i].m_totalEpochSizeInSamples
    ELSE IF m_epochOverride[i]
    THEN m_numberOfWorkers[i] * Len(m_dsLoader[i].examples)
    ELSE Len(m_dsLoader[i].examples)

MinibatchOf(i) == epochConfig[i].m_minibatchSizeInSamples

Started(i) == epochConfig[i] # NoConfig

ExplicitEpoch(i) == epochConfig[i].m_totalEpochSizeInSamples # requestDataSize

RECURSIVE SumOfEpochSizes(_)
SumOfEpochSizes(readers) ==
    IF readers = {} THEN 0
    ELSE LET i == CHOOSE j \in readers : TRUE
         IN  m_epochSize[i] + SumOfEpochSizes(readers \ {i})

\* C1: when every rank 0..W-1 of a job has started its epoch with the same
\* explicit (E, M, W), M a multiple of W, the per-worker epoch sizes add up
\* to E, whether or not M divides E.
C1_SharesSumToEpoch ==
    ( /\ \A i \in Readers : Started(i) /\ ExplicitEpoch(i)
      /\ \A i, j \in Readers : epochConfig[i].m_totalEpochSizeInSamples
                                  = epochConfig[j].m_totalEpochSizeInSamples
                               /\ MinibatchOf(i) = MinibatchOf(j)
      /\ \A i \in Readers : m_workerRank[i] = i /\ m_numberOfWorkers[i] = Cardinality(Readers) )
    => SumOfEpochSizes(Readers) = EpochOf(0)

\* Three workers share an epoch that the minibatch size does not divide and
\* do not all get the same share.
C1_Witness ==
    /\ Cardinality(Readers) = 3
    /\ \A i \in Readers : Started(i) /\ ExplicitEpoch(i)
    /\ EpochOf(0) % MinibatchOf(0) # 0
    /\ m_epochSize[0] # m_epochSize[2]
    /\ SumOfEpochSizes(Readers) = EpochOf(0)

\* The case analysis of the end-of-epoch adjustment, as the claim states it.
C2_Expected(appendLastMinibatch, remaining, s) ==
    IF appendLastMinibatch /\ remaining <= 2 * s
    THEN IF remaining = s + 1 THEN << "returns", remaining, TRUE >> ELSE << "fatal", 0, FALSE >>
    ELSE IF ~appendLastMinibatch /\ remaining <= s
    THEN << "returns", remaining, TRUE >>
    ELSE << "returns", s, FALSE >>

StreamErrors ==
    { "Dense input cannot have ignore label", "Blob not found",
      "Invalid number of input streams", "Unexpected sparse data count",
      "Invalid channel value in sparse input stream" }

\* The batch of the last call holds exactly n samples in every stream.
ReturnedSamples(n) ==
    /\ last'.err = "ok"
    /\ Len(last'.sequences.m_data) > 0
    /\ \A istr \in 1..Len(last'.sequences.m_data) : Len(last'.sequences.m_data[istr]) = n

\* C2: a GetNextSequences call that passed the checks of the demanded count
\* (it equals the minibatch size, and s = totalSampleCount / workerCount is
\* not 0) takes, with remaining = epochSize - consumed: all remaining
\* samples and ends the epoch when appendLastMinibatch and remaining <= 2s
\* (fatal unless remaining = s + 1) or when not appendLastMinibatch and
\* remaining <= s; s samples without ending the epoch in every other case.
\* A call that a stream conversion aborts returns no batch.
C2_EndOfEpochAdjustment ==
    [][ ( /\ last'.op = "GetNextSequences"
          /\ last'.err # "Mismatch between minibatch size and demanded sample count"
          /\ last'.err # "Greater number of workers than samples in minibatch"
          /\ last'.err \notin StreamErrors )
        => LET i == last'.reader
               s == m_minibatchSize[i] \div m_numberOfWorkers[i]
               remaining == m_epochSize[i] - m_currEpochSampleCount[i]
               expected == C2_Expected(m_appendLastMinibatch[i], remaining, s)
           IN  IF expected[1] = "fatal"
               THEN last'.err = "Appending more than one sample"
               ELSE /\ ReturnedSamples(expected[2])
                    /\ last'.sequences.m_endOfEpoch = expected[3]
                    /\ m_currEpochSampleCount'[i] = m_currEpochSampleCount[i] + expected[2]
      ]_vars

\* A call merged the one extra sample into its last minibatch: it returned
\* s + 1 = 2 samples and ended the epoch.
C2_Witness ==
    /\ last.op = "GetNextSequences" /\ last.err = "ok"
    /\ last.sequences.m_endOfEpoch
    /\ m_appendLastMinibatch[last.reader]
    /\ m_minibatchSize[last.reader] \div m_numberOfWorkers[last.reader] = 1
    /\ Len(last.sequences.m_data[1]) = 2

\* C3: StartEpoch throws "not all samples read" exactly when the consumed
\* counter differs from the epoch size; the counters are equal right after
\* construction and right after a GetNextSequences that returned
\* endOfEpoch, so a StartEpoch issued then passes the check.
C3_PreviousEpochRead ==
    /\ [](/\ last.op = "DataSource" =>
                \A i \in Readers : m_epochSize[i] = m_currEpochSampleCount[i]
          /\ (last.op = "GetNextSequences" /\ last.err = "ok" /\ last.sequences.m_endOfEpoch) =>
                m_epochSize[last.reader] = m_currEpochSampleCount[last.reader])
    /\ [][ last'.op = "StartEpoch" =>
             ( last'.err = "New epoch started without reading all samples from previous epoch"
               <=> m_epochSize[last'.reader] # m_currEpochSampleCount[last'.reader] )
         ]_vars

\* A StartEpoch was refused in the middle of an epoch.
C3_Witness ==
    /\ last.op = "StartEpoch"
    /\ last.err = "New epoch started without reading all samples from previous epoch"
    /\ m_currEpochSampleCount[last.reader] > 0
    /\ m_currEpochSampleCount[last.reader] < m_epochSize[last.reader]

\* C4: after a successful StartEpoch with global size E, minibatch size M
\* and W workers, appendLastMinibatch holds iff E mod M > 0,
\* floor((E mod M) / W) = 0 and rank < (E mod M) mod W.  The flag is
\* written by every successful StartEpoch and by nothing else, so the value
\* of the previous epoch never survives.
C4_AppendLastMinibatch ==
    \A i \in Readers :
        Started(i) =>
            LET remainder == EpochOf(i) % MinibatchOf(i)
            IN  m_appendLastMinibatch[i]
                    <=> ( /\ remainder > 0
                          /\ remainder \div m_numberOfWorkers[i] = 0
                          /\ m_workerRank[i] < remainder % m_numberOfWorkers[i] )

\* A reader appends its last sample although a full share would be two.
C4_Witness ==
    \E i \in Readers :
        /\ Started(i) /\ m_appendLastMinibatch[i]
        /\ m_numberOfWorkers[i] = 2 /\ MinibatchOf(i) = 4
        /\ last.op = "StartEpoch" /\ last.err = "ok"

\* The share of a worker as the claim gives it.
C5_Share(E, M, W, rank) ==
    ((E \div M) * M) \div W + (E % M) \div W + (IF rank < (E % M) % W THEN 1 ELSE 0)

Abs(x) == IF x < 0 THEN -x ELSE x

\* C5: the per-worker epoch size is floor(E/M)*M/W + floor((E mod M)/W),
\* plus one for the ranks below (E mod M) mod W; hence the sizes of two
\* workers of a job differ by at most 1 and do not grow with the rank.
C5_WorkerShare ==
    /\ \A i \in Readers :
          Started(i) => m_epochSize[i] = C5_Share(EpochOf(i), MinibatchOf(i),
                                                 m_numberOfWorkers[i], m_workerRank[i])
    /\ \A i, j \in Readers :
          (Started(i) /\ Started(j) /\ epochConfig[i].m_totalEpochSizeInSamples
                                          = epochConfig[j].m_totalEpochSizeInSamples
                                    /\ MinibatchOf(i) = MinibatchOf(j))
          => /\ Abs(m_epochSize[i] - m_epochSize[j]) <= 1
             /\ m_workerRank[i] < m_workerRank[j] => m_epochSize[i] >= m_epochSize[j]

\* Of three workers, the first gets one sample more than the last.
C5_Witness ==
    /\ Cardinality(Readers) = 3
    /\ \A i \in Readers : Started(i)
    /\ m_epochSize[0] = m_epochSize[2] + 1
    /\ m_epochSize[2] > 0

\* The documented scenario: an epoch of 100 samples, minibatches of 10,
\* handed to a reader of a job of 3 workers.
ScenarioCall(i) ==
    /\ m_numberOfWorkers[i] = 3
    /\ AllSamplesRead(m_epochSize[i], m_currEpochSampleCount[i])
    /\ StartEpoch(i, EpochConfiguration(m_workerRank[i], 3, 10, 100))

\* C6 as stated: for globalEpochSize = 100, minibatchSize = 10 and
\* workerCount = 3, StartEpoch gives each of the three workers a per-worker
\* epoch size of 30.
C6_ScenarioGivesThirty ==
    [][ \A i \in Readers :
          ScenarioCall(i) => last'.err = "ok" /\ m_epochSize'[i] = 30 ]_vars

\* C6, amended: for globalEpochSize = 100, minibatchSize = 10 and
\* workerCount = 3, StartEpoch throws "minibatch size not divisible by
\* number of workers" on each of the three workers (10 is no multiple of 3)
\* and computes no per-worker epoch size: epoch size and consumed counter
\* keep their values.
C6_ScenarioIsRefused ==
    [][ \A i \in Readers :
          ScenarioCall(i) =>
              /\ last'.err = "Minibatch size not divisible by number of workers"
              /\ m_epochSize'[i] = m_epochSize[i]
              /\ m_currEpochSampleCount'[i] = m_currEpochSampleCount[i] ]_vars

\* A reader of a job of 3 workers refused minibatches of 10 samples.
C6_Witness ==
    /\ last.op = "StartEpoch"
    /\ last.err = "Minibatch size not divisible by number of workers"
    /\ m_numberOfWorkers[last.reader] = 3
    /\ m_minibatchSize[last.reader] = 10

\* C7: StartEpoch throws whenever the minibatch size of its configuration is
\* no multiple of the worker count, whatever the epoch size and the rank
\* (a call that throws nothing was handed a minibatch size that both the
\* configured and the reader's worker count divide), and a call that throws
\* leaves epoch size and consumed counter as they were.  epochConfig' is
\* the configuration of a call that threw nothing.
C7_IndivisibleMinibatchRefused ==
    [][ last'.op = "StartEpoch" =>
          LET i == last'.reader
              config == epochConfig'[i]
          IN  /\ last'.err = "ok" =>
                    /\ config.m_minibatchSizeInSamples % config.m_numberOfWorkers = 0
                    /\ config.m_minibatchSizeInSamples % m_numberOfWorkers[i] = 0
              /\ last'.err # "ok" =>
                    /\ m_epochSize'[i] = m_epochSize[i]
                    /\ m_currEpochSampleCount'[i] = m_currEpochSampleCount[i] ]_vars

\* After a whole epoch was read, a StartEpoch with an indivisible minibatch
\* size was refused for that reason.
C7_Witness ==
    /\ last.op = "StartEpoch"
    /\ last.err = "Minibatch size not divisible by number of workers"
    /\ Started(last.reader)
    /\ m_epochSize[last.reader] > 0
    /\ m_minibatchSize[last.reader] % m_numberOfWorkers[last.reader] # 0

UsesEntireDataset(i) ==
    Started(i) /\ epochConfig[i].m_totalEpochSizeInSamples = requestDataSize

\* C8: started with the "use entire dataset" value, a reader in
\* epoch-override mode gets a per-worker epoch size of exactly
\* loaderExampleCount (its share of workerCount x loaderExampleCount), for
\* every minibatch size the workers divide and every rank; without override
\* mode it gets its share of loaderExampleCount.
C8_EntireDataset ==
    \A i \in Readers :
        UsesEntireDataset(i) =>
            IF m_epochOverride[i]
            THEN /\ m_epochSize[i] = GetExamplesCount(m_dsLoader[i])
                 /\ ~m_appendLastMinibatch[i]
            ELSE m_epochSize[i] = C5_Share(GetExamplesCount(m_dsLoader[i]), MinibatchOf(i),
                                           m_numberOfWorkers[i], m_workerRank[i])

\* The last of three overriding workers reads all three examples of the
\* dataset.
C8_Witness ==
    \E i \in Readers :
        /\ UsesEntireDataset(i) /\ m_epochOverride[i]
        /\ m_numberOfWorkers[i] = 3 /\ m_workerRank[i] = 2
        /\ GetExamplesCount(m_dsLoader[i]) = 3
        /\ m_epochSize[i] = 3

\* C9: GetNextSequences called with a totalSampleCount other than the
\* stored minibatch size throws the mismatch error at once: the loader is
\* not advanced, no adapter buffer is moved and the consumed counter keeps
\* its value.
C9_DemandMismatchRefused ==
    [][ last'.op = "GetNextSequences" =>
          \A totalSampleCount \in SampleCounts \ {m_minibatchSize[last'.reader]} :
              GetNextSequences(last'.reader, totalSampleCount)
              => /\ last'.err = "Mismatch between minibatch size and demanded sample count"
                 /\ last'.sequences = NoBatch
                 /\ m_dsLoader' = m_dsLoader
                 /\ m_example' = m_example
                 /\ m_currEpochSampleCount' = m_currEpochSampleCount ]_vars

\* In the middle of an epoch a call demanded another count than the
\* minibatch size and was refused.
C9_Witness ==
    /\ last.op = "GetNextSequences"
    /\ last.err = "Mismatch between minibatch size and demanded sample count"
    /\ Started(last.reader)
    /\ m_currEpochSampleCount[last.reader] > 0
    /\ m_currEpochSampleCount[last.reader] < m_epochSize[last.reader]

\* C10: StartEpoch throws whenever the rank or the worker count of its
\* configuration differs from the reader's (a call that throws nothing was
\* handed the reader's own rank and worker count; epochConfig' is its
\* configuration), and no call changes the rank or the worker count of a
\* reader.
C10_StaticTopology ==
    [][ /\ m_workerRank' = m_workerRank
        /\ m_numberOfWorkers' = m_numberOfWorkers
        /\ (last'.op = "StartEpoch" /\ last'.err = "ok") =>
              /\ epochConfig'[last'.reader].m_workerRank = m_workerRank[last'.reader]
              /\ epochConfig'[last'.reader].m_numberOfWorkers = m_numberOfWorkers[last'.reader]
        /\ (last'.op = "StartEpoch"
            /\ last'.err \in {"Rank changed", "Number of workers changed"}) =>
              UNCHANGED epochVars ]_vars

\* With the previous epoch read to its end, a StartEpoch naming another
\* worker count was refused for that reason.
C10_Witness ==
    /\ last.op = "StartEpoch"
    /\ last.err = "Number of workers changed"
    /\ Started(last.reader)

\* C11: SetConfiguration only validates.  It throws if and only if the
\* worker count, the rank or the minibatch size of its configuration differs
\* from the reader's m_numberOfWorkers, m_workerRank or m_minibatchSize, and
\* thrown or not it leaves the epoch size, the consumed counter, the
\* minibatch size, appendLastMinibatch, the rank, the worker count, the
\* loader and the adapter as they were.
C11_SetConfigurationValidates ==
    [][ last'.op = "SetConfiguration" =>
          /\ UNCHANGED << m_epochSize, m_currEpochSampleCount, m_minibatchSize,
                          m_appendLastMinibatch, m_workerRank, m_numberOfWorkers,
                          m_dsLoader, m_example >>
          /\ \A config \in ReaderConfigurations(last'.reader) :
                SetConfiguration(last'.reader, config) =>
                    ( last'.err # "ok" <=>
                        \/ config.m_numberOfWorkers # m_numberOfWorkers[last'.reader]
                        \/ config.m_workerRank # m_workerRank[last'.reader]
                        \/ config.m_minibatchSizeInSamples # m_minibatchSize[last'.reader] ) ]_vars

\* In the middle of an epoch SetConfiguration was handed another minibatch
\* size than the epoch's and refused it.
C11_Witness ==
    /\ last.op = "SetConfiguration"
    /\ last.err = "Minibatch size changed since StartEpoch"
    /\ Started(last.reader)
    /\ m_minibatchSize[last.reader] = MinibatchOf(last.reader)
    /\ m_currEpochSampleCount[last.reader] > 0
    /\ m_currEpochSampleCount[last.reader] < m_epochSize[last.reader]

\* The number of samples in the batch of a call that returned one.
SamplesOf(call) == Len(call.sequences.m_data[1])

\* The 0-based number, in the loader's cycle, of the example the loader
\* produced last: the one the adapter was filled with.
CurrentIndex(loader) ==
    (loader.position + Len(loader.examples) - 1) % Len(loader.examples)

\* The n-th (0-based) example of the loader's cycle.
ExampleAt(loader, n) == loader.examples[(n % Len(loader.examples)) + 1]

\* The adapter `example` holds, untouched, the example `loader` produced
\* last.
Intact(loader, example) ==
    LET blobs == ExampleAt(loader, CurrentIndex(loader))
    IN  \A ib \in 1..Len(blobs) :
            /\ example.m_blobs[ib] = blobs[ib].content
            /\ example.m_blob_shapes[ib] = blobs[ib].shape

\* The indices a label blob gives in a sparse stream of spatial size S.
LabelIndices(streamDescriptor, labels, S) ==
    [p \in 1..Len(labels) |->
        IF ~streamDescriptor.ignoreStream.isNull
           /\ StaticCastInt(labels[p]) = streamDescriptor.ignoreStream.ignoreLabel
        THEN p - 1
        ELSE StaticCastInt(labels[p]) * S + (p - 1)]

\* Stream istr (1 or 2; the scenes declare their streams in that order) of
\* sample `sequence` was built from the example `blobs`.
BuiltFrom(i, istr, sequence, blobs) ==
    LET streamDescriptor == m_streamDescriptors[i][istr]
        content == blobs[BlobIndexFromName(m_example[i], streamDescriptor.datasetName)].content
    IN  IF streamDescriptor.datasetStorageType = "dense"
        THEN sequence.m_ownedData = content
        ELSE sequence.m_indicesMemory = LabelIndices(streamDescriptor, content, Len(content))

\* C12: samples are delivered in loader order.  The constructor's probe is
\* the loader's first example and the adapter holds it; only
\* GetNextSequences touches the loader and the adapter; a call that returns
\* k > 0 samples starts with the adapter holding, untouched, the example the
\* loader produced last, builds sample j from the j-th example from there
\* on, advances the loader by exactly k and ends with the adapter holding,
\* untouched, the next example; a call that returns no sample or throws
\* before the loop pulls nothing; a call that throws inside the loop leaves
\* the adapter emptied, and no later call of that reader returns a sample.
C12_LoaderOrder ==
    /\ \A i \in Readers : constructed[i] = "ok" =>
          Intact(m_dsLoader[i], m_example[i]) /\ CurrentIndex(m_dsLoader[i]) = 0
    /\ [][ /\ (m_dsLoader' # m_dsLoader \/ m_example' # m_example)
              => last'.op = "GetNextSequences"
           /\ (last'.op = "GetNextSequences" /\ last'.err = "ok") =>
                LET i == last'.reader
                    k == SamplesOf(last')
                    first == CurrentIndex(m_dsLoader[i])
                IN  IF k = 0
                    THEN m_dsLoader' = m_dsLoader /\ m_example' = m_example
                    ELSE /\ Intact(m_dsLoader[i], m_example[i])
                         /\ Intact(m_dsLoader'[i], m_example'[i])
                         /\ CurrentIndex(m_dsLoader'[i])
                               = (first + k) % Len(m_dsLoader[i].examples)
                         /\ \A istr \in 1..Len(m_streamDescriptors[i]) :
                                /\ Len(last'.sequences.m_data[istr]) = k
                                /\ \A j \in 1..k :
                                      /\ last'.sequences.m_data[istr][j].m_id = j - 1
                                      /\ BuiltFrom(i, istr, last'.sequences.m_data[istr][j],
                                                   ExampleAt(m_dsLoader[i], first + j - 1))
           /\ (last'.op = "GetNextSequences" /\ last'.err # "ok") =>
                \/ m_dsLoader' = m_dsLoader /\ m_example' = m_example
                \/ ~Intact(m_dsLoader'[last'.reader], m_example'[last'.reader]) ]_vars

\* A batch of two samples followed a batch of two samples: the second batch
\* was built from the third and fourth example the loader produced, and the
\* loader went round its cycle.
C12_Witness ==
    /\ last.op = "GetNextSequences"
    /\ last.err = "ok"
    /\ SamplesOf(last) = 2
    /\ m_currEpochSampleCount[last.reader] = 4
    /\ Len(m_dsLoader[last.reader].examples) = 2
    /\ last.sequences.m_data[1][2].m_ownedData
          = ExampleAt(m_dsLoader[last.reader], 1)[1].content

\* The buffers of the dense sequences of the last batch of reader i, one
\* entry per sequence.
BatchBuffers(i) ==
    { << ismpl, istr >> : ismpl \in 1..Len(heap[i].batch),
                          istr \in 1..Len(m_streamDescriptors[i]) }

\* C13: no sequence aliases memory of a later pull.  A buffer that
\* SwapBlobData moved into a sequence is held by no adapter slot and is not
\* written by the loader afterwards, and every buffer has one owner: no two
\* adapter slots and no two sequences of a batch hold the same buffer.
C13_NoAliasing ==
    \A i \in Readers :
        LET h == heap[i]
        IN  /\ \A ib \in 1..Len(h.slots) : h.slots[ib] \notin h.moved
            /\ h.dirty = {}
            /\ \A ib, jb \in 1..Len(h.slots) :
                  (ib # jb /\ h.slots[ib] # 0) => h.slots[ib] # h.slots[jb]
            /\ \A a, b \in BatchBuffers(i) :
                  (a # b /\ h.batch[a[1]][a[2]] # 0)
                      => h.batch[a[1]][a[2]] # h.batch[b[1]][b[2]]
            /\ \A a \in BatchBuffers(i) :
                  h.batch[a[1]][a[2]] # 0 => h.batch[a[1]][a[2]] \in h.moved

\* A batch of two samples was returned after an earlier batch: its two
\* dense sequences own two buffers, the adapter was refilled into others.
C13_Witness ==
    /\ last.op = "GetNextSequences"
    /\ last.err = "ok"
    /\ Len(heap[last.reader].batch) = 2
    /\ Cardinality(heap[last.reader].moved) >= 3
    /\ heap[last.reader].batch[1][1] # 0
    /\ heap[last.reader].batch[2][1] # 0
    /\ heap[last.reader].batch[2][1] # heap[last.reader].batch[1][1]
    /\ \A ib \in 1..Len(heap[last.reader].slots) : heap[last.reader].slots[ib] # 0

\* The position, in the lists of streams, of the data stream of the n-th
\* stream descriptor: a sparse descriptor with an ignore stream takes two.
StreamOf(streamDescriptors, n) ==
    n + Cardinality({ m \in 1..(n - 1) :
                        /\ streamDescriptors[m].datasetStorageType = "sparse_csc"
                        /\ ~streamDescriptors[m].ignoreStream.isNull })

\* The blob of example `blobs` that a stream descriptor of reader i names.
BlobOf(i, streamDescriptor, blobs) ==
    blobs[BlobIndexFromName(m_example[i], streamDescriptor.datasetName)]

LabelsOf(blob) == [p \in 1..Len(blob.content) |-> StaticCastInt(blob.content[p])]

\* Whether the stream descriptor ignores label l.
Ignores(streamDescriptor, l) ==
    ~streamDescriptor.ignoreStream.isNull /\ l = streamDescriptor.ignoreStream.ignoreLabel

\* The sparse sequence `sequence` is the one-hot encoding of `labels` for
\* spatial size S and C channels.
OneHot(streamDescriptor, sequence, labels, S, C) ==
    /\ Len(labels) = S
    /\ sequence.m_nnzCounts = << S >>
    /\ sequence.m_totalNnzCount = S
    /\ sequence.m_valuesMemory = [p \in 1..S |-> Float(1)]
    /\ Len(sequence.m_indicesMemory) = S
    /\ \A p \in 1..S :
          /\ ~Ignores(streamDescriptor, labels[p])
                => sequence.m_indicesMemory[p] = labels[p] * S + (p - 1)
          /\ sequence.m_indicesMemory[p] >= 0
          /\ sequence.m_indicesMemory[p] < S * C
          /\ sequence.m_indicesMemory[p] % S = p - 1

\* C15: sparse one-hot construction.  In every batch returned, the sequence
\* of every sparse stream (spatial size S = dims[0] * dims[1], C =
\* outChannels) and every sample has nnzCount = totalNnzCount = S, S values
\* 1.0 and, for the label l of every position p that is not ignored,
\* index[p] = l * S + p; every index lies in [0, S * C) and
\* index[p] mod S = p.
C15_OneHot ==
    [][ (last'.op = "GetNextSequences" /\ last'.err = "ok") =>
          LET i == last'.reader
              first == CurrentIndex(m_dsLoader[i])
          IN  \A n \in 1..Len(m_streamDescriptors[i]) :
                  m_streamDescriptors[i][n].datasetStorageType = "sparse_csc" =>
                      \A j \in 1..SamplesOf(last') :
                          LET istr == StreamOf(m_streamDescriptors[i], n)
                              dims == m_inputStreams[i][istr].m_sampleLayout
                          IN  OneHot(m_streamDescriptors[i][n],
                                     last'.sequences.m_data[istr][j],
                                     LabelsOf(BlobOf(i, m_streamDescriptors[i][n],
                                                     ExampleAt(m_dsLoader[i], first + j - 1))),
                                     dims[1] * dims[2], dims[3]) ]_vars

\* The dense sequence `mask` and the sparse sequence `sequence` treat the
\* ignored ones of `labels` as C16 says, for spatial size S and C channels.
Masked(streamDescriptor, mask, sequence, labels, S, C) ==
    /\ Len(mask.m_ownedData) = S
    /\ \A p \in 1..S :
          /\ Ignores(streamDescriptor, labels[p]) => mask.m_ownedData[p] = Float(0)
          /\ ~Ignores(streamDescriptor, labels[p]) => mask.m_ownedData[p] = Float(1)
          /\ Ignores(streamDescriptor, labels[p]) =>
                /\ sequence.m_indicesMemory[p] = p - 1
                /\ sequence.m_indicesMemory[p] < S * C

\* C16: ignore-label handling.  In every batch returned, the mask sequence
\* of every sparse stream with an ignore stream has one entry per spatial
\* position, 0 where the label is the ignore label and 1 elsewhere, and the
\* sparse index of an ignored position p is p, which is in range; the
\* ignore label raises no error, whether or not it lies in
\* [0, outChannels): a call that throws "invalid channel" read a label that
\* is not ignored and lies outside [0, outChannels).
C16_IgnoreLabel ==
    [][ /\ (last'.op = "GetNextSequences" /\ last'.err = "ok") =>
              LET i == last'.reader
                  first == CurrentIndex(m_dsLoader[i])
              IN  \A n \in 1..Len(m_streamDescriptors[i]) :
                      ( /\ m_streamDescriptors[i][n].datasetStorageType = "sparse_csc"
                        /\ ~m_streamDescriptors[i][n].ignoreStream.isNull ) =>
                          \A j \in 1..SamplesOf(last') :
                              LET istr == StreamOf(m_streamDescriptors[i], n)
                                  dims == m_inputStreams[i][istr].m_sampleLayout
                              IN  Masked(m_streamDescriptors[i][n],
                                         last'.sequences.m_data[istr + 1][j],
                                         last'.sequences.m_data[istr][j],
                                         LabelsOf(BlobOf(i, m_streamDescriptors[i][n],
                                                         ExampleAt(m_dsLoader[i], first + j - 1))),
                                         dims[1] * dims[2], dims[3])
        /\ ( /\ last'.op = "GetNextSequences"
             /\ last'.err = "Invalid channel value in sparse input stream" ) =>
              LET i == last'.reader
                  blobs == ExampleAt(m_dsLoader'[i], CurrentIndex(m_dsLoader'[i]))
              IN  \E n \in 1..Len(m_streamDescriptors[i]) :
                      /\ m_streamDescriptors[i][n].datasetStorageType = "sparse_csc"
                      /\ \E p \in 1..Len(BlobOf(i, m_streamDescriptors[i][n], blobs).content) :
                            LET l == LabelsOf(BlobOf(i, m_streamDescriptors[i][n], blobs))[p]
                            IN  /\ ~Ignores(m_streamDescriptors[i][n], l)
                                /\ (l < 0 \/ l >= m_streamDescriptors[i][n].dimension) ]_vars

\* Example `blobs` carries, for a sparse stream of reader i, a label that is
\* not ignored and lies outside [0, outChannels).
InvalidLabel(i, blobs) ==
    \E n \in 1..Len(m_streamDescriptors[i]) :
        /\ m_streamDescriptors[i][n].datasetStorageType = "sparse_csc"
        /\ \E p \in 1..Len(BlobOf(i, m_streamDescriptors[i][n], blobs).content) :
              LET l == LabelsOf(BlobOf(i, m_streamDescriptors[i][n], blobs))[p]
              IN  /\ ~Ignores(m_streamDescriptors[i][n], l)
                  /\ (l < 0 \/ l >= m_streamDescriptors[i][n].dimension)

\* C17: invalid labels are fatal.  For every reader that was constructed,
\* whatever channel dimension it declares, no call of GetNextSequences
\* returns a batch with a sample built from an example that carries, in a
\* sparse stream, a label that is not ignored and is < 0 or >= outChannels;
\* and a call that throws "invalid channel" leaves the counter of consumed
\* samples as it was and returns no batch.
C17_InvalidLabelFatal ==
    [][ /\ (last'.op = "GetNextSequences" /\ last'.err = "ok") =>
              LET i == last'.reader
                  first == CurrentIndex(m_dsLoader[i])
              IN  \A j \in 1..SamplesOf(last') :
                      ~InvalidLabel(i, ExampleAt(m_dsLoader[i], first + j - 1))
        /\ ( /\ last'.op = "GetNextSequences"
             /\ last'.err = "Invalid channel value in sparse input stream" ) =>
              /\ m_currEpochSampleCount' = m_currEpochSampleCount
              /\ last'.sequences = NoBatch ]_vars

\* Whether a stream descriptor brings a mask entry with it.
HasMask(streamDescriptor) ==
    /\ streamDescriptor.datasetStorageType = "sparse_csc"
    /\ ~streamDescriptor.ignoreStream.isNull

\* C18: the stream lists are in lockstep.  For every reader that was
\* constructed, m_inputStreams and m_outputStreams have the same length,
\* the same name at every position and the ids 0..n-1 in list order; every
\* stream descriptor has one entry in each list, followed by the entry of
\* its mask exactly when it is sparse with an ignore stream, and the lists
\* hold nothing else; every output entry and every mask entry is dense and
\* an input data entry has the storage type its descriptor declares.
C18_StreamsInLockstep ==
    \A i \in Readers :
        constructed[i] = "ok" =>
            LET descriptors == m_streamDescriptors[i]
                input == m_inputStreams[i]
                output == m_outputStreams[i]
            IN  /\ Len(input) = Len(output)
                /\ Len(input) = StreamOf(descriptors, Len(descriptors) + 1) - 1
                /\ \A k \in 1..Len(input) :
                      /\ k <= Len(output)
                      /\ input[k].m_name = output[k].m_name
                      /\ input[k].m_id = k - 1
                      /\ output[k].m_id = k - 1
                      /\ output[k].m_storageType = "dense"
                /\ \A n \in 1..Len(descriptors) :
                      LET istr == StreamOf(descriptors, n)
                      IN  /\ istr <= Len(input)
                          /\ input[istr].m_name = descriptors[n].name
                          /\ input[istr].m_storageType = descriptors[n].datasetStorageType
                          /\ HasMask(descriptors[n]) =>
                                /\ istr + 1 <= Len(input)
                                /\ input[istr + 1].m_name = descriptors[n].ignoreStream.ignoreStreamName
                                /\ input[istr + 1].m_storageType = "dense"

\* A reader with masked and unmasked descriptors returned a batch: three
\* entries in each list for two descriptors, the mask right after its data.
C18_Witness ==
    \E i \in Readers :
        /\ constructed[i] = "ok"
        /\ last.op = "GetNextSequences" /\ last.reader = i /\ last.err = "ok"
        /\ Len(m_streamDescriptors[i]) = 2
        /\ Len(m_inputStreams[i]) = 3 /\ Len(m_outputStreams[i]) = 3
        /\ HasMask(m_streamDescriptors[i][1]) /\ ~HasMask(m_streamDescriptors[i][2])
        /\ m_inputStreams[i][2].m_name = "ignore"

\* The stream descriptors of reader i that name no blob of its loader.
MissingBlobs(i) ==
    { n \in 1..Len(m_streamDescriptors[i]) :
        \A ib \in 1..Len(m_dsLoader[i].blobNames) :
            m_dsLoader[i].blobNames[ib] # m_streamDescriptors[i][n].datasetName }

\* The sparse stream descriptors of reader i that name a blob whose shape in
\* the probed example, the first of the dataset, has more than one channel:
\* the channels come last once the shape is reversed.
ManyChannels(i) ==
    { n \in 1..Len(m_streamDescriptors[i]) :
        /\ m_streamDescriptors[i][n].datasetStorageType = "sparse_csc"
        /\ \E ib \in 1..Len(m_dsLoader[i].blobNames) :
              /\ m_dsLoader[i].blobNames[ib] = m_streamDescriptors[i][n].datasetName
              /\ m_dsLoader[i].examples[1][ib].shape[1] # 1 }

\* C19: the constructor's checks of the streams.  Construction fails when
\* some stream descriptor names a blob the loader does not have and when
\* the probed blob of some sparse descriptor has, its shape reversed, a last
\* dimension other than 1; it succeeds when neither is the case.
C19_ConstructionChecks ==
    \A i \in Readers :
        /\ MissingBlobs(i) # {} => constructed[i] # "ok"
        /\ ManyChannels(i) # {} => constructed[i] # "ok"
        /\ (MissingBlobs(i) = {} /\ ManyChannels(i) = {}) => constructed[i] = "ok"

\* A reader whose sparse descriptor names a blob of two channels was refused.
C19_Witness ==
    \E i \in Readers :
        /\ MissingBlobs(i) = {}
        /\ ManyChannels(i) # {}
        /\ constructed[i] = "Invalid image dataset shape for sparse data"

\* C20: the constructor validates the sparse dimension.  No reader is
\* constructed whose sparse stream descriptor declares a channel dimension
\* <= 0: construction of such a reader fails.
C20_SparseDimensionPositive ==
    \A i \in Readers :
        constructed[i] = "ok" =>
            \A n \in 1..Len(m_streamDescriptors[i]) :
                m_streamDescriptors[i][n].datasetStorageType = "sparse_csc" =>
                    /\ m_streamDescriptors[i][n].dimension > 0
                    /\ m_inputStreams[i][StreamOf(m_streamDescriptors[i], n)].m_sampleLayout[3] > 0

\* Reader i is in the middle of an epoch: it started one and has not told
\* its caller the end of it.
InEpoch(i) ==
    /\ i \in Readers
    /\ epochConfig[i] # NoConfig
    /\ ~reads[i].m_endOfEpoch

\* Reader i told its caller the end of the epoch with every sample of its
\* portion consumed, which is what the next StartEpoch asks for.
EpochEnded(i) ==
    /\ i \in Readers
    /\ reads[i].m_endOfEpoch
    /\ AllSamplesRead(m_epochSize[i], m_currEpochSampleCount[i])

\* C21: every epoch can be read to its end.  After a successful StartEpoch
\* with any E >= 0, M >= 1 and W dividing M, on a reader of any rank, the
\* calls GetNextSequences(M) over valid labels throw no error, "appending
\* more than one sample" included, and after finitely many of them the
\* reader returns endOfEpoch = true with its counter equal to its epoch
\* size, so that the next StartEpoch is permitted.
C21_EpochReadToEnd ==
    /\ [][last'.op = "GetNextSequences" => last'.err = "ok"]_vars
    /\ \A i \in 0..MaxWorkers-1 : InEpoch(i) ~> EpochEnded(i)

\* C22: the workers finish an epoch in lockstep.  The workers of a job
\* having started the epoch with the same (E, M, W) and each reading
\* minibatches of M samples, the call number on which a worker receives
\* endOfEpoch = true is the same for every worker: no worker has made as
\* many calls as another needed to reach the end without having received
\* the end itself, on that very call; also when fewer than W samples are
\* left over and only the lowest ranks get one more.
C22_Lockstep ==
    \A i, j \in Readers :
        (reads[i].m_endOfEpoch /\ reads[j].calls >= reads[i].calls) =>
            /\ reads[j].m_endOfEpoch
            /\ reads[j].calls = reads[i].calls

\* C23: the counter of consumed samples.  In every reachable state the
\* counter of every reader is at most the reader's epoch size; every
\* successful GetNextSequences adds to the counter the number of samples of
\* the batch it returns, every stream of that batch has that many
\* sequences, and the batch says endOfEpoch exactly when the counter equals
\* the epoch size after the call.
C23_CounterInvariant ==
    /\ [](\A i \in Readers : m_currEpochSampleCount[i] <= m_epochSize[i])
    /\ [][ (last'.op = "GetNextSequences" /\ last'.err = "ok") =>
              LET i == last'.reader
                  batch == last'.sequences
                  sampleCount == m_currEpochSampleCount'[i] - m_currEpochSampleCount[i]
              IN  /\ sampleCount >= 0
                  /\ Len(batch.m_data) = Len(m_inputStreams[i])
                  /\ \A istr \in 1..Len(batch.m_data) : Len(batch.m_data[istr]) = sampleCount
                  /\ batch.m_endOfEpoch <=> (m_currEpochSampleCount'[i] = m_epochSize'[i]) ]_vars

\* A reader returned the last batch of an epoch, of several samples, and
\* its counter reached its epoch size.
C23_Witness ==
    /\ last.op = "GetNextSequences" /\ last.err = "ok"
    /\ last.sequences.m_endOfEpoch
    /\ SamplesOf(last) > 1
    /\ m_currEpochSampleCount[last.reader] = m_epochSize[last.reader]
    /\ m_currEpochSampleCount[last.reader] > SamplesOf(last)

\* C24: a failed StartEpoch changes nothing.  A call of StartEpoch that
\* throws, for samples of the previous epoch left unread, for a rank or a
\* worker count that differs or for a minibatch size the worker count does
\* not divide, leaves the epoch size, the counter, the stored minibatch size
\* and appendLastMinibatch as they were, and the rest of the reader with
\* them, so that the calls after it behave as if it had not been made.
C24_FailedStartEpoch ==
    [][ (last'.op = "StartEpoch" /\ last'.err # "ok") =>
            /\ m_epochSize' = m_epochSize
            /\ m_currEpochSampleCount' = m_currEpochSampleCount
            /\ m_minibatchSize' = m_minibatchSize
            /\ m_appendLastMinibatch' = m_appendLastMinibatch
            /\ UNCHANGED << ctorVars, m_example, m_dsLoader >> ]_vars

\* The call on record entered the loop over the samples of GetNextSequences.
EnteredLoop(call) ==
    /\ call.op = "GetNextSequences"
    /\ \/ call.err \in StreamErrors
       \/ call.err = "ok" /\ SamplesOf(call) > 0

\* C25: no use after transfer.  For every list of stream descriptors the
\* constructor accepts, lists in which two descriptors name the same blob
\* included: when GetNextSequences enters its loop the adapter holds,
\* untouched, what the most recent pull of the loader wrote, so that the
\* first SwapBlobData finds its slot filled; no two descriptors of a sample
\* that was completed transferred the same slot; and the buffer of every
\* dense sequence returned has as many elements as the product of its shape.
C25_NoUseAfterTransfer ==
    [][ /\ EnteredLoop(last') =>
              Intact(m_dsLoader[last'.reader], m_example[last'.reader])
        /\ (EnteredLoop(last') /\ last'.err = "ok") =>
              LET i == last'.reader
              IN  /\ \A n, m \in 1..Len(m_streamDescriptors[i]) :
                        n # m => BlobIndexFromName(m_example[i], m_streamDescriptors[i][n].datasetName)
                                 # BlobIndexFromName(m_example[i], m_streamDescriptors[i][m].datasetName)
                  /\ \A istr \in 1..Len(last'.sequences.m_data) :
                        \A j \in 1..SamplesOf(last') :
                            LET sequence == last'.sequences.m_data[istr][j]
                            IN  sequence.kind = "dense" =>
                                    Len(sequence.m_ownedData) =
                                        sequence.m_sampleLayout[1] * sequence.m_sampleLayout[2]
                                        * sequence.m_sampleLayout[3] ]_vars

====
